---- MODULE Spec2Model ----
(***************************************************************************)
(* Identifier and name assignment of the bundler (lib/ids/IdHelpers.js):   *)
(* assignNames, assignDeterministicIds, assignAscendingModuleIds and       *)
(* assignAscendingChunkIds, modelled as state machines over a small        *)
(* universe of items.                                                      *)
(*                                                                         *)
(* An item (a Module or a Chunk) is a handle 1..n.  The comparator handed  *)
(* to the assigners is a total order on the items; here it is the numeric  *)
(* order of the handles, so the handle is the item's rank under the        *)
(* comparator.  Strings are TLA+ strings; name + i is name \o ToString(i). *)
(***************************************************************************)
EXTENDS Integers, Sequences, FiniteSets, TLC

\* ------------------------------------------------------------------ bounds

\* Items handed to assignNames in the general runs.
MaxItems == 3

\* Items that share one long name in the runs with one large bucket.
BulkSize == 11

\* Items handed to assignDeterministicIds.
MaxDetItems == 2

\* Probes (values of the counter i) followed for one item.
MaxProbe == 3

\* The ceiling of the width of deterministic ids.
MaxSafeLength == 15

\* Modules or chunks in the runs of the ascending assigners.
MaxAscItems == 3

VARIABLES
    prog,          \* which assigner runs: "names" | "det" | "asc"
    pc,            \* position in the running assigner
    pass,          \* 1: the first pass, 2: the second pass over the same items
    mode,          \* how pass 2 was started: "none" | "reorder" | "rerun"
    items,         \* the items argument, in the iterable's iteration order
    id,            \* item -> the id/name the item carries (an IdValue)
    usedIds,       \* the usedIds set of strings the pass works on
    usedIds0,      \* usedIds as it stood when the current pass started
    log,           \* the assignName/assignId calls of the current pass, in order
    prevId,        \* id as it stood when pass 1 returned
    prevUnnamed,   \* what pass 1 of assignNames returned
    shortName,     \* item -> getShortName(item)
    longName,      \* item -> getLongName(item, getShortName(item))
    nameToItems2,  \* the Map nameToItems2, in insertion order
    b,             \* index of the bucket / item the outer loop is at
    j,             \* index inside the bucket of the suffix branch
    i,             \* the suffix counter i of the suffix branch
    unnamedItems,  \* the unnamedItems array
    ident,         \* item -> getName(item)
    maxLength,     \* the maxLength argument: [given, n]
    usedMaxLength, \* the width assignDeterministicIds works with
    digest,        \* string -> hex digest of the hash, as far as it was asked
    kind,          \* "module" | "chunk": which ascending assigner runs
    compItems,     \* compilation.modules / compilation.chunks
    compUsedIds,   \* compilation.usedModuleIds / usedChunkIds: [defined, ids]
    nextId,        \* the counter nextId of the ascending assigners
    chunkIds,      \* item -> chunk.ids
    id0,           \* id as it stood when the current pass started
    chunkIds0,     \* chunkIds as it stood when the current pass started
    arg,           \* the argument of the helper function that is called
    res            \* what the call of the helper function gave

namesVars == <<shortName, longName, nameToItems2, j, unnamedItems,
               prevUnnamed>>
detVars == <<ident, maxLength, usedMaxLength, digest>>
ascVars == <<kind, compItems, compUsedIds, nextId, chunkIds, chunkIds0>>
helperVars == <<arg, res>>

vars == <<prog, pc, pass, mode, items, id, id0, usedIds, usedIds0, log,
          prevId, b, i, namesVars, detVars, ascVars, helperVars>>

\* ------------------------------------------------------------- id values

\* The id field of an item: null, a number or a string.
NullId == [tag |-> "null", n |-> 0, s |-> ""]
NumId(n) == [tag |-> "number", n |-> n, s |-> ""]
StrId(s) == [tag |-> "string", n |-> 0, s |-> s]

\* id + "" for a non-null id.
IdString(v) == IF v.tag = "number" THEN ToString(v.n) ELSE v.s

\* ------------------------------------------------------------ sequences

Range(s) == {s[k] : k \in 1..Len(s)}

Perms(S) == {s \in [1..Cardinality(S) -> S] : Range(s) = S}

\* The comparator argument: the numeric order of the handles.
comparator(x, y) == IF x < y THEN -1 ELSE IF x > y THEN 1 ELSE 0

RECURSIVE InsertSorted(_, _)
InsertSorted(s, x) ==
    IF s = <<>> THEN <<x>>
    ELSE IF comparator(x, s[Len(s)]) < 0
         THEN Append(InsertSorted(SubSeq(s, 1, Len(s) - 1), x), s[Len(s)])
         ELSE Append(s, x)

\* Mutant of SortItems: the array is left in the order it came in.
SortItems_Unsorted(s) == s

\* array.sort(comparator): a stable sort.
RECURSIVE SortItems(_)
SortItems(s) ==
    IF s = <<>> THEN <<>>
    ELSE InsertSorted(SortItems(SubSeq(s, 1, Len(s) - 1)), s[Len(s)])

\* ------------------------------------------------------- the Map of items

\* A Map<string, T[]> is the sequence of its entries in insertion order.
MapHas(map, key) == \E k \in 1..Len(map) : map[k].name = key

MapIndex(map, key) == CHOOSE k \in 1..Len(map) : map[k].name = key

\* Mutant of addToMapOfItems: the array of a key that is there is replaced.
addToMapOfItems_Overwrite(map, key, value) ==
    IF MapHas(map, key)
    THEN [map EXCEPT ![MapIndex(map, key)].items = <<value>>]
    ELSE Append(map, [name |-> key, items |-> <<value>>])

addToMapOfItems(map, key, value) ==
    IF MapHas(map, key)
    THEN [map EXCEPT ![MapIndex(map, key)].items = Append(@, value)]
    ELSE Append(map, [name |-> key, items |-> <<value>>])

\* ------------------------------------------------------------ assignNames

\* First loop: group the items by short name, in iteration order.
RECURSIVE GroupByShortName(_, _, _)
GroupByShortName(its, sn, map) ==
    IF its = <<>> THEN map
    ELSE GroupByShortName(Tail(its), sn,
                          addToMapOfItems(map, sn[Head(its)], Head(its)))

RECURSIVE AddByLongName(_, _, _)
AddByLongName(its, ln, map) ==
    IF its = <<>> THEN map
    ELSE AddByLongName(Tail(its), ln,
                       addToMapOfItems(map, ln[Head(its)], Head(its)))

\* Mutant of MustRegroup: only the bucket of the empty name is regrouped.
MustRegroup_EmptyOnly(e) == e.name = ""

\* Whether the items of a bucket of nameToItems are regrouped by long name.
MustRegroup(e) == Len(e.items) > 1 \/ e.name = ""

\* Second loop: buckets of several items, or of the empty name, are regrouped
\* by long name; a bucket of one item with a name keeps it.
RECURSIVE RegroupByLongName(_, _, _)
RegroupByLongName(map1, ln, map2) ==
    IF map1 = <<>> THEN map2
    ELSE LET e == Head(map1)
         IN  RegroupByLongName(Tail(map1), ln,
                 IF MustRegroup(e)
                 THEN AddByLongName(e.items, ln, map2)
                 ELSE addToMapOfItems(map2, e.name, e.items[1]))

\* The condition of the while loop that advances the suffix counter.
SuffixTaken(map, used, s) == MapHas(map, s) /\ s \in used

\* while (nameToItems2.has(name + i) && usedIds.has(name + i)) i++;
RECURSIVE NextSuffix(_, _, _, _)
NextSuffix(map, used, name, k) ==
    IF SuffixTaken(map, used, name \o ToString(k))
    THEN NextSuffix(map, used, name, k + 1)
    ELSE k

\* The two loops that build nameToItems and nameToItems2.
BuildBuckets ==
    /\ prog = "names" /\ pc = "start"
    /\ nameToItems2' = RegroupByLongName(
                           GroupByShortName(items, shortName, <<>>),
                           longName, <<>>)
    /\ unnamedItems' = <<>>
    /\ b' = 1 /\ j' = 1 /\ i' = 0
    /\ pc' = "buckets"
    /\ UNCHANGED <<prog, pass, mode, items, id, id0, usedIds, usedIds0, log,
                   prevId, prevUnnamed, shortName, longName, detVars,
                   ascVars, helperVars>>

\* Third loop, the bucket of the empty name: its items are unnamed.
CollectUnnamed ==
    /\ prog = "names" /\ pc = "buckets" /\ b <= Len(nameToItems2)
    /\ nameToItems2[b].name = ""
    /\ unnamedItems' = unnamedItems \o nameToItems2[b].items
    /\ b' = b + 1
    /\ UNCHANGED <<prog, pc, pass, mode, items, id, id0, usedIds, usedIds0,
                   log, prevId, prevUnnamed, shortName, longName,
                   nameToItems2, j, i, detVars, ascVars, helperVars>>

\* Third loop, a bucket of one item whose name is not in usedIds.
AssignDirect ==
    /\ prog = "names" /\ pc = "buckets" /\ b <= Len(nameToItems2)
    /\ LET e == nameToItems2[b]
       IN  /\ e.name # ""
           /\ Len(e.items) = 1 /\ e.name \notin usedIds
           /\ id' = [id EXCEPT ![e.items[1]] = StrId(e.name)]
           /\ log' = Append(log, [item |-> e.items[1], name |-> e.name])
           /\ usedIds' = usedIds \cup {e.name}
    /\ b' = b + 1
    /\ UNCHANGED <<prog, pc, pass, mode, items, id0, usedIds0, prevId,
                   prevUnnamed, shortName, longName, nameToItems2, j, i,
                   unnamedItems, detVars, ascVars, helperVars>>

\* Third loop, any other bucket: one iteration of the inner for loop.  The
\* bucket is sorted when the loop is entered (j = 1).
AssignSuffixed ==
    /\ prog = "names" /\ pc = "buckets" /\ b <= Len(nameToItems2)
    /\ LET e == nameToItems2[b]
           sorted == IF j = 1 THEN SortItems(e.items) ELSE e.items
           start == IF j = 1 THEN 0 ELSE i
           k == NextSuffix(nameToItems2, usedIds, e.name, start)
           name == e.name \o ToString(k)
       IN  /\ e.name # ""
           /\ ~(Len(e.items) = 1 /\ e.name \notin usedIds)
           /\ nameToItems2' = [nameToItems2 EXCEPT ![b].items = sorted]
           /\ id' = [id EXCEPT ![sorted[j]] = StrId(name)]
           /\ log' = Append(log, [item |-> sorted[j], name |-> name])
           /\ usedIds' = usedIds \cup {name}
           /\ i' = k + 1
           /\ IF j < Len(e.items)
              THEN j' = j + 1 /\ b' = b
              ELSE j' = 1 /\ b' = b + 1
    /\ UNCHANGED <<prog, pc, pass, mode, items, id0, usedIds0, prevId,
                   prevUnnamed, shortName, longName, unnamedItems, detVars,
                   ascVars, helperVars>>

\* unnamedItems.sort(comparator); return unnamedItems;
ReturnUnnamed ==
    /\ prog = "names" /\ pc = "buckets" /\ b > Len(nameToItems2)
    /\ unnamedItems' = SortItems(unnamedItems)
    /\ pc' = "done"
    /\ UNCHANGED <<prog, pass, mode, items, id, id0, usedIds, usedIds0, log,
                   prevId, prevUnnamed, shortName, longName, nameToItems2,
                   b, j, i, detVars, ascVars, helperVars>>

\* The items 1..n in comparator order (the handle is the rank).
InComparatorOrder(n) == [k \in 1..n |-> k]

Reversed(s) == [k \in 1..Len(s) |-> s[Len(s) + 1 - k]]

\* A second call of assignNames on the same items: either a fresh run (the
\* items without names, a usedIds set with the contents the first run
\* started from) that yields the items in comparator order, or a re-run over
\* the items as the first pass left them, with the usedIds set it left.
NamesSecondPass ==
    /\ prog = "names" /\ pc = "done" /\ pass = 1
    /\ \E m \in {"reorder", "rerun"} :
          /\ mode' = m
          /\ items' = IF m = "reorder" THEN InComparatorOrder(Len(items))
                                       ELSE items
          /\ usedIds' = IF m = "reorder" THEN usedIds0 ELSE usedIds
          /\ id' = IF m = "reorder" THEN id0 ELSE id
    /\ usedIds0' = usedIds'
    /\ id0' = id'
    /\ pass' = 2
    /\ prevId' = id
    /\ prevUnnamed' = unnamedItems
    /\ log' = <<>>
    /\ nameToItems2' = <<>>
    /\ unnamedItems' = <<>>
    /\ b' = 1 /\ j' = 1 /\ i' = 0
    /\ pc' = "start"
    /\ UNCHANGED <<prog, shortName, longName, detVars, ascVars, helperVars>>

\* The variables a program does not use keep these values.
IdleNames ==
    /\ shortName = <<>> /\ longName = <<>> /\ nameToItems2 = <<>>
    /\ j = 1 /\ unnamedItems = <<>> /\ prevUnnamed = <<>>

IdleDet ==
    /\ ident = <<>> /\ maxLength = [given |-> FALSE, n |-> 0]
    /\ usedMaxLength = 0 /\ digest = <<>>

IdleAsc ==
    /\ kind = "none" /\ compItems = {}
    /\ compUsedIds = [defined |-> FALSE, ids |-> {}]
    /\ nextId = 0 /\ chunkIds = <<>> /\ chunkIds0 = <<>>

IdleHelpers == arg = <<>> /\ res = <<>>

\* The inputs of the general runs of assignNames.  A profile is the pair of
\* names the callbacks give an item.
Profiles ==
    { <<"s", "a">>, <<"s", "a0">>, <<"s", "b">>, <<"s", "">>, <<"a0", "a">>,
      <<"", "">>, <<"", "a">> }

ReservedNames == { {}, {"a", "a0"} }

InitNamesCommon ==
    /\ prog = "names"
    /\ pc = "start"
    /\ pass = 1
    /\ mode = "none"
    /\ id = [x \in DOMAIN shortName |-> NullId]
    /\ id0 = id
    /\ usedIds0 = usedIds
    /\ log = <<>>
    /\ prevId = id
    /\ prevUnnamed = <<>>
    /\ nameToItems2 = <<>>
    /\ b = 1 /\ j = 1 /\ i = 0
    /\ unnamedItems = <<>>
    /\ IdleDet /\ IdleAsc /\ IdleHelpers

InitNames ==
    /\ \E n \in 1..MaxItems :
          /\ items \in Perms(1..n)
          /\ \E pr \in [1..n -> Profiles] :
                /\ shortName = [x \in 1..n |-> pr[x][1]]
                /\ longName = [x \in 1..n |-> pr[x][2]]
    /\ usedIds \in ReservedNames
    /\ InitNamesCommon

NextNames ==
    \/ BuildBuckets
    \/ CollectUnnamed
    \/ AssignDirect
    \/ AssignSuffixed
    \/ ReturnUnnamed
    \/ NamesSecondPass

SpecNames == InitNames /\ [][NextNames]_vars

\* The inputs of the runs with one large bucket: m items of short name "s"
\* and long name "a", then one or two more items; the iterable yields them
\* in comparator order or the other way round.
BulkProfiles == { <<"s", "a">>, <<"s", "a1">>, <<"a1", "a">>, <<"", "">> }

BulkReservedNames == { {}, {"a1"} }

InitNamesBulk ==
    /\ \E m \in 1..BulkSize, e \in 1..2 :
          /\ items \in { InComparatorOrder(m + e),
                         Reversed(InComparatorOrder(m + e)) }
          /\ \E pr \in [1..e -> BulkProfiles] :
                /\ shortName = [x \in 1..(m + e) |->
                                  IF x <= m THEN "s" ELSE pr[x - m][1]]
                /\ longName = [x \in 1..(m + e) |->
                                 IF x <= m THEN "a" ELSE pr[x - m][2]]
    /\ usedIds \in BulkReservedNames
    /\ InitNamesCommon

SpecNamesBulk == InitNamesBulk /\ [][NextNames]_vars

\* ------------------------------------------------- assignDeterministicIds

RECURSIVE Pow10(_)
Pow10(k) == IF k <= 0 THEN 1 ELSE 10 * Pow10(k - 1)

\* The scan of getHashNumber over the hex digest dg (a sequence of the
\* digits' values 0..15; a value below 10 is a character with charCode < 58)
\* from position k on, with the accumulated result and the remaining len.
RECURSIVE HashScan(_, _, _, _)
HashScan(dg, k, result, len) ==
    IF k > Len(dg) THEN (result * 10 + 1) * Pow10(len - 1)
    ELSE IF dg[k] < 10
         THEN IF len - 1 < 1 THEN result * 10 + dg[k]
              ELSE HashScan(dg, k + 1, result * 10 + dg[k], len - 1)
         ELSE HashScan(dg, k + 1, result, len)

\* Mutant of getHashNumber: one digit more than len is taken.
getHashNumber_OneDigitMore(dg, len) == HashScan(dg, 1, 0, len + 1)

\* getHashNumber(str, len), given the digest of str.
getHashNumber(dg, len) == HashScan(dg, 1, 0, len)

\* Math.ceil(Math.log10(n * 1.25 + 1)): the least L with 10^L >= (5n + 4) / 4.
RECURSIVE CeilLog10Quarter(_, _)
CeilLog10Quarter(v, L) ==
    IF 4 * Pow10(L) >= v THEN L ELSE CeilLog10Quarter(v, L + 1)

optimalLength(n) == CeilLog10Quarter(5 * n + 4, 0)

Min(x, y) == IF x < y THEN x ELSE y
Max(x, y) == IF x > y THEN x ELSE y

\* Mutant of UsedMaxLength: the optimal length is left out.
UsedMaxLength_RequestedOnly(ml, n) ==
    Min(IF ml.given THEN ml.n ELSE 0, MaxSafeLength)

\* The width: the requested length capped at 15, or the optimal length when
\* that is larger.
UsedMaxLength(ml, n) ==
    Max(Min(IF ml.given THEN ml.n ELSE 0, MaxSafeLength), optimalLength(n))

\* The digests the hash may give a string that was not hashed before.
ProbeDigests == { <<3, 7>>, <<7, 10>>, <<10, 11>> }

DigestChoices(str) ==
    IF str \in DOMAIN digest THEN {digest[str]} ELSE ProbeDigests

\* Mutant of IdIsUsed: usedIds.has(id), a number looked up in a set of
\* strings, which is never found.
IdIsUsed_NumberKey(used, n) == FALSE

\* usedIds.has(id + "")
IdIsUsed(used, n) == ToString(n) \in used

\* Mutant of ReserveId: the committed id is not added to usedIds.
ReserveId_Forgotten(used, n) == used

\* usedIds.add(id + "")
ReserveId(used, n) == used \cup {ToString(n)}

\* items.sort(comparator) and the choice of the width.
DetSort ==
    /\ prog = "det" /\ pc = "start"
    /\ items' = SortItems(items)
    /\ usedMaxLength' = UsedMaxLength(maxLength, Len(items))
    /\ b' = 1 /\ i' = 0
    /\ pc' = "probe"
    /\ UNCHANGED <<prog, pass, mode, id, id0, usedIds, usedIds0, log, prevId,
                   ident, maxLength, digest, namesVars, ascVars, helperVars>>

\* One turn of the do-while loop whose id is in usedIds: probe again.
DetProbeCollides ==
    /\ prog = "det" /\ pc = "probe" /\ b <= Len(items) /\ i < MaxProbe
    /\ LET str == ident[items[b]] \o ToString(i)
       IN  \E dg \in DigestChoices(str) :
              /\ IdIsUsed(usedIds, getHashNumber(dg, usedMaxLength))
              /\ digest' = (str :> dg) @@ digest
    /\ i' = i + 1
    /\ UNCHANGED <<prog, pc, pass, mode, items, id, id0, usedIds, usedIds0,
                   log, prevId, b, ident, maxLength, usedMaxLength,
                   namesVars, ascVars, helperVars>>

\* The turn of the do-while loop whose id is free: assignId and reserve it.
DetProbeCommits ==
    /\ prog = "det" /\ pc = "probe" /\ b <= Len(items) /\ i <= MaxProbe
    /\ LET str == ident[items[b]] \o ToString(i)
       IN  \E dg \in DigestChoices(str) :
              LET n == getHashNumber(dg, usedMaxLength)
              IN  /\ ~IdIsUsed(usedIds, n)
                  /\ digest' = (str :> dg) @@ digest
                  /\ id' = [id EXCEPT ![items[b]] = NumId(n)]
                  /\ log' = Append(log, [item |-> items[b],
                                         name |-> ToString(n)])
                  /\ usedIds' = ReserveId(usedIds, n)
    /\ b' = b + 1 /\ i' = 0
    /\ UNCHANGED <<prog, pc, pass, mode, items, id0, usedIds0, prevId, ident,
                   maxLength, usedMaxLength, namesVars, ascVars, helperVars>>

DetReturn ==
    /\ prog = "det" /\ pc = "probe" /\ b > Len(items)
    /\ pc' = "done"
    /\ UNCHANGED <<prog, pass, mode, items, id, id0, usedIds, usedIds0, log,
                   prevId, b, i, detVars, namesVars, ascVars, helperVars>>

\* A second call of assignDeterministicIds on the same items: a fresh run
\* whose items array is in another order, or a re-run over the items as the
\* first pass left them, with the usedIds set it left.
DetSecondPass ==
    /\ prog = "det" /\ pc = "done" /\ pass = 1
    /\ \E m \in {"reorder", "rerun"} :
          /\ mode' = m
          /\ items' = IF m = "reorder"
                      THEN Reversed(InComparatorOrder(Len(items)))
                      ELSE items
          /\ usedIds' = IF m = "reorder" THEN usedIds0 ELSE usedIds
          /\ id' = IF m = "reorder" THEN id0 ELSE id
    /\ usedIds0' = usedIds'
    /\ id0' = id'
    /\ pass' = 2
    /\ prevId' = id
    /\ log' = <<>>
    /\ b' = 1 /\ i' = 0
    /\ pc' = "start"
    /\ UNCHANGED <<prog, ident, maxLength, usedMaxLength, digest, namesVars,
                   ascVars, helperVars>>

\* The inputs of assignDeterministicIds.
Idents == {"x", "y"}

MaxLengths ==
    { [given |-> FALSE, n |-> 0], [given |-> TRUE, n |-> 1],
      [given |-> TRUE, n |-> 2] }

ReservedIds == { {}, {"3"}, {"3", "7", "37"} }

InitDet ==
    /\ prog = "det"
    /\ pc = "start"
    /\ pass = 1
    /\ mode = "none"
    /\ \E n \in 1..MaxDetItems :
          /\ items \in Perms(1..n)
          /\ ident \in [1..n -> Idents]
          /\ id = [x \in 1..n |-> NullId]
    /\ maxLength \in MaxLengths
    /\ usedIds \in ReservedIds
    /\ usedMaxLength = 0
    /\ digest = <<>>
    /\ id0 = id
    /\ usedIds0 = usedIds
    /\ log = <<>>
    /\ prevId = id
    /\ b = 1 /\ i = 0
    /\ IdleNames /\ IdleAsc /\ IdleHelpers

NextDet ==
    \/ DetSort
    \/ DetProbeCollides
    \/ DetProbeCommits
    \/ DetReturn
    \/ DetSecondPass

SpecDet == InitDet /\ [][NextDet]_vars

\* The strings of all the ids of a width of w digits.
AllIdsOfWidth(w) == { ToString(n) : n \in 0..(Pow10(w) - 1) }

\* A turn of the do-while loop after the counter has passed MaxProbe, whose
\* id is in usedIds.  The counter is no longer followed: i stands for every
\* value from MaxProbe on, and the digest of the latest such probe is kept
\* under name + "+".
DetProbeBeyond ==
    /\ prog = "det" /\ pc = "probe" /\ b <= Len(items) /\ i = MaxProbe
    /\ \E dg \in ProbeDigests :
          /\ IdIsUsed(usedIds, getHashNumber(dg, usedMaxLength))
          /\ digest' = ((ident[items[b]] \o "+") :> dg) @@ digest
    /\ UNCHANGED <<prog, pc, pass, mode, items, id, id0, usedIds, usedIds0,
                   log, prevId, b, i, ident, maxLength, usedMaxLength,
                   namesVars, ascVars, helperVars>>

\* Reserved sets that hold one id, or every id of one digit.
DenseReservedIds == { {"3"}, AllIdsOfWidth(1) }

InitDetDense ==
    /\ prog = "det"
    /\ pc = "start"
    /\ pass = 1
    /\ mode = "none"
    /\ \E n \in 1..MaxDetItems :
          /\ items \in Perms(1..n)
          /\ ident \in [1..n -> Idents]
          /\ id = [x \in 1..n |-> NullId]
    /\ maxLength \in MaxLengths
    /\ usedIds \in DenseReservedIds
    /\ usedMaxLength = 0
    /\ digest = <<>>
    /\ id0 = id
    /\ usedIds0 = usedIds
    /\ log = <<>>
    /\ prevId = id
    /\ b = 1 /\ i = 0
    /\ IdleNames /\ IdleAsc /\ IdleHelpers

NextDetFair ==
    \/ DetSort
    \/ DetProbeCollides
    \/ DetProbeCommits
    \/ DetProbeBeyond
    \/ DetReturn

\* One call of assignDeterministicIds that keeps running: a step is taken
\* whenever one can be, and a probe that can find a free id over and over
\* again does find one.
SpecDetFair ==
    /\ InitDetDense
    /\ [][NextDetFair]_vars
    /\ WF_vars(NextDetFair)
    /\ SF_vars(DetProbeCommits)

\* --------------------------------------------------- ascending assigners

\* Mutant of getUsedModuleIds: the ids the modules carry are left out.
getUsedModuleIds_ConfiguredOnly ==
    { IdString(v) : v \in IF compUsedIds.defined THEN compUsedIds.ids ELSE {} }

\* The ids compilation.usedModuleIds holds, then the ids the modules of the
\* compilation carry, each as a string.
getUsedModuleIds ==
    { IdString(v) : v \in IF compUsedIds.defined THEN compUsedIds.ids ELSE {} }
    \cup { IdString(id[m]) : m \in { x \in compItems : id[x] # NullId } }

\* The same for compilation.usedChunkIds and the chunks of the compilation.
getUsedChunkIds ==
    { IdString(v) : v \in IF compUsedIds.defined THEN compUsedIds.ids ELSE {} }
    \cup { IdString(id[c]) : c \in { x \in compItems : id[x] # NullId } }

\* while (usedIds.has(nextId + "")) nextId++;
RECURSIVE SkipUsed(_, _)
SkipUsed(used, n) ==
    IF ToString(n) \in used THEN SkipUsed(used, n + 1) ELSE n

\* Mutant of NextFreeId: the counter is never moved past the used ids.
NextFreeId_NoSkip(used, n) == n

\* The id the next unassigned item gets: with an empty usedIds the counter
\* itself, otherwise the counter moved past the used ids.
NextFreeId(used, n) == IF Cardinality(used) > 0 THEN SkipUsed(used, n) ELSE n

\* Mutant of NeedsId: the check of the id the item carries is left out.
NeedsId_Always(v) == TRUE

\* chunkGraph.getModuleId(module) === null / chunk.id === null
NeedsId(v) == v = NullId

\* const usedIds = getUsedModuleIds(compilation) / getUsedChunkIds(compilation);
\* let nextId = 0;
AscStart ==
    /\ prog = "asc" /\ pc = "start"
    /\ usedIds' = IF kind = "module" THEN getUsedModuleIds ELSE getUsedChunkIds
    /\ usedIds0' = usedIds'
    /\ nextId' = 0
    /\ b' = 1
    /\ pc' = "loop"
    /\ UNCHANGED <<prog, pass, mode, items, id, id0, log, prevId, i, kind,
                   compItems, compUsedIds, chunkIds, chunkIds0, namesVars,
                   detVars, helperVars>>

\* assignAscendingModuleIds, a module whose id is null.
AscAssignModule ==
    /\ prog = "asc" /\ pc = "loop" /\ kind = "module" /\ b <= Len(items)
    /\ NeedsId(id[items[b]])
    /\ LET n == NextFreeId(usedIds, nextId)
       IN  /\ id' = [id EXCEPT ![items[b]] = NumId(n)]
           /\ log' = Append(log, [item |-> items[b], name |-> ToString(n)])
           /\ nextId' = n + 1
    /\ b' = b + 1
    /\ UNCHANGED <<prog, pc, pass, mode, items, id0, usedIds, usedIds0,
                   prevId, i, kind, compItems, compUsedIds, chunkIds,
                   chunkIds0, namesVars, detVars, helperVars>>

\* assignAscendingChunkIds, a chunk whose id is null.
AscAssignChunk ==
    /\ prog = "asc" /\ pc = "loop" /\ kind = "chunk" /\ b <= Len(items)
    /\ NeedsId(id[items[b]])
    /\ LET n == NextFreeId(usedIds, nextId)
       IN  /\ id' = [id EXCEPT ![items[b]] = NumId(n)]
           /\ chunkIds' = [chunkIds EXCEPT ![items[b]] = <<NumId(n)>>]
           /\ log' = Append(log, [item |-> items[b], name |-> ToString(n)])
           /\ nextId' = n + 1
    /\ b' = b + 1
    /\ UNCHANGED <<prog, pc, pass, mode, items, id0, usedIds, usedIds0,
                   prevId, i, kind, compItems, compUsedIds, chunkIds0,
                   namesVars, detVars, helperVars>>

\* Either assigner, an item that carries an id: nothing is done.
AscSkip ==
    /\ prog = "asc" /\ pc = "loop" /\ b <= Len(items)
    /\ ~NeedsId(id[items[b]])
    /\ b' = b + 1
    /\ UNCHANGED <<prog, pc, pass, mode, items, id, id0, usedIds, usedIds0,
                   log, prevId, i, kind, compItems, compUsedIds, nextId,
                   chunkIds, chunkIds0, namesVars, detVars, helperVars>>

AscReturn ==
    /\ prog = "asc" /\ pc = "loop" /\ b > Len(items)
    /\ pc' = "done"
    /\ UNCHANGED <<prog, pass, mode, items, id, id0, usedIds, usedIds0, log,
                   prevId, b, i, ascVars, namesVars, detVars, helperVars>>

\* The same assigner applied again to what the first pass left.
AscSecondPass ==
    /\ prog = "asc" /\ pc = "done" /\ pass = 1
    /\ mode' = "rerun"
    /\ pass' = 2
    /\ prevId' = id
    /\ id0' = id
    /\ chunkIds0' = chunkIds
    /\ log' = <<>>
    /\ b' = 1
    /\ nextId' = 0
    /\ pc' = "start"
    /\ UNCHANGED <<prog, items, id, usedIds, usedIds0, i, kind, compItems,
                   compUsedIds, chunkIds, namesVars, detVars, helperVars>>

\* The inputs of the ascending assigners.  Each module or chunk is in the
\* iterable and in the compilation ("both"), only in the iterable ("arg") or
\* only in the compilation ("comp"); the iterable yields its items by handle.
Memberships == {"both", "arg", "comp"}

CarriedIds == { NullId, NumId(1), StrId("2") }

CompUsedIdSets ==
    { [defined |-> FALSE, ids |-> {}],
      [defined |-> TRUE, ids |-> {}],
      [defined |-> TRUE, ids |-> {NumId(0), StrId("1"), NumId(3)}] }

RECURSIVE Filtered(_, _)
Filtered(s, keep) ==
    IF s = <<>> THEN <<>>
    ELSE IF Head(s) \in keep THEN <<Head(s)>> \o Filtered(Tail(s), keep)
         ELSE Filtered(Tail(s), keep)

InitAsc ==
    /\ prog = "asc"
    /\ pc = "start"
    /\ pass = 1
    /\ mode = "none"
    /\ kind \in {"module", "chunk"}
    /\ \E n \in 1..MaxAscItems :
          /\ id \in [1..n -> CarriedIds]
          /\ \E mem \in [1..n -> Memberships] :
                /\ items = Filtered(InComparatorOrder(n),
                                    { x \in 1..n : mem[x] # "comp" })
                /\ compItems = { x \in 1..n : mem[x] # "arg" }
    /\ chunkIds = [x \in DOMAIN id |->
                     IF kind = "chunk" /\ id[x] # NullId THEN <<id[x]>>
                     ELSE <<>>]
    /\ compUsedIds \in CompUsedIdSets
    /\ usedIds = {}
    /\ usedIds0 = {}
    /\ nextId = 0
    /\ id0 = id
    /\ chunkIds0 = chunkIds
    /\ log = <<>>
    /\ prevId = id
    /\ b = 1 /\ i = 0
    /\ IdleNames /\ IdleDet /\ IdleHelpers

NextAsc ==
    \/ AscStart
    \/ AscAssignModule
    \/ AscAssignChunk
    \/ AscSkip
    \/ AscReturn
    \/ AscSecondPass

SpecAsc == InitAsc /\ [][NextAsc]_vars

\* Any of the assigners, run once or twice.
Init == InitNames \/ InitDet \/ InitAsc

Next == NextNames \/ NextDet \/ NextAsc

Spec == Init /\ [][Next]_vars

\* ------------------------------------------------------ helper functions

\* In the helpers a string is the sequence of its characters.

\* Longest request handed to requestToId.
MaxRequestLen == 4

\* Length of the digests handed to getHashNumber, and the largest len.
MaxDigestLen == 3
MaxDigits == 3

\* Longest string and longest delimiter handed to shortenLongString.
MaxStringLen == 101
MaxDelimiterLen == 96

\* The length from which shortenLongString shortens, and of the hash it adds.
ShortenLimit == 100
ShortenHashLen == 6

\* The character class [a-zA-Z0-9_-].
IdChars ==
    { "a", "b", "c", "d", "e", "f", "g", "h", "i", "j", "k", "l", "m", "n",
      "o", "p", "q", "r", "s", "t", "u", "v", "w", "x", "y", "z",
      "A", "B", "C", "D", "E", "F", "G", "H", "I", "J", "K", "L", "M", "N",
      "O", "P", "Q", "R", "S", "T", "U", "V", "W", "X", "Y", "Z",
      "0", "1", "2", "3", "4", "5", "6", "7", "8", "9", "_", "-" }

\* replace(/^(\.\.?\/)+/, ""): the leading "./" and "../" segments are dropped.
RECURSIVE StripRelativePrefix(_)
StripRelativePrefix(s) ==
    IF Len(s) >= 2 /\ s[1] = "." /\ s[2] = "/"
    THEN StripRelativePrefix(SubSeq(s, 3, Len(s)))
    ELSE IF Len(s) >= 3 /\ s[1] = "." /\ s[2] = "." /\ s[3] = "/"
         THEN StripRelativePrefix(SubSeq(s, 4, Len(s)))
         ELSE s

\* Mutant of IsReplaced: no character is replaced.
IsReplaced_Never(s, k) == FALSE

\* Whether the character at position k matches (^[.-]|[^a-zA-Z0-9_-]).
IsReplaced(s, k) == (k = 1 /\ s[k] \in {".", "-"}) \/ s[k] \notin IdChars

\* replace(/(^[.-]|[^a-zA-Z0-9_-])+/g, "_") from position k on: every maximal
\* run of matching characters becomes one "_".
RECURSIVE ReplaceRuns(_, _)
ReplaceRuns(s, k) ==
    IF k > Len(s) THEN <<>>
    ELSE IF IsReplaced(s, k)
         THEN IF k > 1 /\ IsReplaced(s, k - 1)
              THEN ReplaceRuns(s, k + 1)
              ELSE <<"_">> \o ReplaceRuns(s, k + 1)
         ELSE <<s[k]>> \o ReplaceRuns(s, k + 1)

requestToId(request) == ReplaceRuns(StripRelativePrefix(request), 1)

\* string.slice(0, end): a negative end counts from the end of the string.
Slice(s, end) ==
    SubSeq(s, 1, IF end < 0 THEN Max(Len(s) + end, 0) ELSE Min(end, Len(s)))

\* getHash(str, len): the first len characters of the hex digest of str.  A
\* character of the digest is written [hashOf |-> n], n the length of str,
\* the one thing by which the strings of the runs differ.
getHash(str, len) == [k \in 1..len |-> [hashOf |-> Len(str)]]

shortenLongString(string, delimiter) ==
    IF Len(string) < ShortenLimit THEN string
    ELSE Slice(string, ShortenLimit - ShortenHashLen - Len(delimiter))
             \o delimiter \o getHash(string, ShortenHashLen)

\* The values a library name is given in the runs, with what typeof says of
\* them and whether they are truthy.
NameValues ==
    { [v |-> "undefined", type |-> "undefined", truthy |-> FALSE],
      [v |-> "null", type |-> "object", truthy |-> FALSE],
      [v |-> "''", type |-> "string", truthy |-> FALSE],
      [v |-> "'MyLibrary'", type |-> "string", truthy |-> TRUE],
      [v |-> "0", type |-> "number", truthy |-> FALSE],
      [v |-> "1", type |-> "number", truthy |-> TRUE],
      [v |-> "false", type |-> "boolean", truthy |-> FALSE],
      [v |-> "true", type |-> "boolean", truthy |-> TRUE],
      [v |-> "['a', 'b']", type |-> "object", truthy |-> TRUE],
      [v |-> "{ root: 'a' }", type |-> "object", truthy |-> TRUE] }

\* Mutant of NameIsRejected: every name that is not a string is rejected.
NameIsRejected_AnyNonString(name) == name.type # "string"

\* name && typeof name !== "string"
NameIsRejected(name) == name.truthy /\ name.type # "string"

\* SystemLibraryPlugin.parseOptions(library), library.name being name.
parseOptions(name) ==
    IF NameIsRejected(name)
    THEN [thrown |-> TRUE,
          value |-> "System.js library name must be a simple string or unset"]
    ELSE [thrown |-> FALSE, value |-> [name |-> name]]

Returned(v) == [thrown |-> FALSE, value |-> v]

HelperUnchanged ==
    UNCHANGED <<prog, pass, mode, items, id, id0, usedIds, usedIds0, log,
                prevId, b, i, arg, namesVars, detVars, ascVars>>

CallRequestToId ==
    /\ prog = "requestToId" /\ pc = "call"
    /\ res' = Returned(requestToId(arg))
    /\ pc' = "returned"
    /\ HelperUnchanged

CallGetHashNumber ==
    /\ prog = "getHashNumber" /\ pc = "call"
    /\ res' = Returned(getHashNumber(arg.digest, arg.len))
    /\ pc' = "returned"
    /\ HelperUnchanged

CallShortenLongString ==
    /\ prog = "shortenLongString" /\ pc = "call"
    /\ res' = Returned(shortenLongString(arg.string, arg.delimiter))
    /\ pc' = "returned"
    /\ HelperUnchanged

CallParseOptions ==
    /\ prog = "parseOptions" /\ pc = "call"
    /\ res' = parseOptions(arg.name)
    /\ pc' = "returned"
    /\ HelperUnchanged

\* The sequences over S of a length up to n.
SeqsUpTo(S, n) == UNION { [1..m -> S] : m \in 0..n }

\* The characters of the requests: of the class ("a", "_", "-"), of the
\* relative segments (".", "/"), and one of neither ("?").
RequestChars == { ".", "/", "-", "a", "_", "?" }

\* The hex digits of the digests: decimal digits and letters (10..15).
DigestChars == { 0, 1, 9, 10, 15 }

\* The string of length n: its k-th character is written k.
StringOfLength(n) == [k \in 1..n |-> k]

\* The delimiter of length n: every character is written "~".
DelimiterOfLength(n) == [k \in 1..n |-> "~"]

InitHelpers ==
    /\ pc = "call"
    /\ \/ /\ prog = "requestToId"
          /\ arg \in SeqsUpTo(RequestChars, MaxRequestLen)
       \/ /\ prog = "getHashNumber"
          /\ \E dg \in SeqsUpTo(DigestChars, MaxDigestLen) \ {<<>>},
                len \in 1..MaxDigits :
                arg = [digest |-> dg, len |-> len]
       \/ /\ prog = "shortenLongString"
          /\ \E n \in 0..MaxStringLen, d \in 0..MaxDelimiterLen :
                arg = [string |-> StringOfLength(n),
                       delimiter |-> DelimiterOfLength(d)]
       \/ /\ prog = "parseOptions"
          /\ \E name \in NameValues : arg = [name |-> name]
    /\ res = <<>>
    /\ pass = 1 /\ mode = "none"
    /\ items = <<>> /\ id = <<>> /\ id0 = <<>> /\ prevId = <<>>
    /\ usedIds = {} /\ usedIds0 = {}
    /\ log = <<>>
    /\ b = 1 /\ i = 0
    /\ IdleNames /\ IdleDet /\ IdleAsc

NextHelpers ==
    \/ CallRequestToId
    \/ CallGetHashNumber
    \/ CallShortenLongString
    \/ CallParseOptions

SpecHelpers == InitHelpers /\ [][NextHelpers]_vars

\* ------------------------------------------------- claims on assignNames

\* The names committed so far in the current pass.
CommittedNames == { log[k].name : k \in 1..Len(log) }

NamesDone == prog = "names" /\ pc = "done"

\* C1: no name assignNames commits through assignName is a member of the
\* reserved set as it stood before the pass started.
C1_CommittedNotReserved ==
    prog = "names" => \A k \in 1..Len(log) : log[k].name \notin usedIds0

\* C2: within one completed assignNames pass the names committed to
\* distinct items are pairwise distinct.
C2_NamesPairwiseDistinct ==
    NamesDone =>
        \A k, l \in 1..Len(log) : k # l => log[k].name # log[l].name

\* C5: for a fixed multiset of items, callbacks, comparator and pre-pass
\* reserved set, the name committed to each item does not depend on the
\* order in which the iterable yields the items.
C5_NamesOrderIndependent ==
    (NamesDone /\ pass = 2 /\ mode = "reorder") => id = prevId


\* --------------------------------------- claims on assignDeterministicIds

\* C3: the ids assignDeterministicIds assigned to distinct items are
\* pairwise distinct, and none of them, as a string, is a member of the
\* reserved-id set as it stood before the pass; when the pass has completed
\* every item carries such an id.
C3_DetIdsDistinctAndFree ==
    prog = "det" =>
        /\ \A k \in 1..Len(log) :
              /\ id[log[k].item].tag = "number"
              /\ IdString(id[log[k].item]) = log[k].name
              /\ IdString(id[log[k].item]) \notin usedIds0
        /\ \A k, l \in 1..Len(log) :
              k # l => /\ log[k].item # log[l].item
                       /\ id[log[k].item] # id[log[l].item]
        /\ pc = "done" => { log[k].item : k \in 1..Len(log) } = Range(items)

\* A completed pass over two items in which a probe collided, with ids
\* reserved before the pass.
C3_Witness ==
    /\ prog = "det" /\ pc = "done" /\ pass = 1
    /\ Len(items) = 2
    /\ usedIds0 # {}
    /\ Cardinality(DOMAIN digest) > Len(items)

\* C4: two runs of assignDeterministicIds over the same items, identity
\* strings, comparator, requested length and reserved-id contents assign
\* every item the same id, whatever the order of the items array.
C4_DetOrderIndependent ==
    (prog = "det" /\ pc = "done" /\ pass = 2 /\ mode = "reorder")
        => id = prevId

\* The second run has completed over two items of which one had to probe
\* more than once.
C4_Witness ==
    /\ prog = "det" /\ pc = "done" /\ pass = 2 /\ mode = "reorder"
    /\ Len(items) = 2
    /\ Cardinality(DOMAIN digest) > Len(items)

\* ---------------------------------------- claims on the ascending assigners

\* The number assigned by the k-th assignment of the current pass.
AssignedNumber(k) == id[log[k].item].n

\* C6: the ascending assigners give the unassigned items, in iteration
\* order, strictly increasing ids, each the smallest non-negative integer that
\* is not in the reserved set (as a string) and is greater than every id
\* assigned earlier in the pass; with an empty reserved set the ids are
\* 0, 1, 2, ...
C6_AscendingSmallestFree ==
    prog = "asc" =>
        /\ \A k \in 1..Len(log) :
              /\ id[log[k].item] = NumId(AssignedNumber(k))
              /\ log[k].name = ToString(AssignedNumber(k))
              /\ log[k].name \notin usedIds0
              /\ \A l \in 1..(k - 1) : AssignedNumber(l) < AssignedNumber(k)
              /\ \A m \in 0..(AssignedNumber(k) - 1) :
                    \/ ToString(m) \in usedIds0
                    \/ \E l \in 1..(k - 1) : m <= AssignedNumber(l)
              /\ usedIds0 = {} => AssignedNumber(k) = k - 1
        /\ pc = "done" =>
              [k \in 1..Len(log) |-> log[k].item]
                  = Filtered(items, { x \in DOMAIN id : id0[x] = NullId })

\* Reserved set {"0", "1", "3"} and three unassigned items: the ids 2, 4, 5.
C6_Witness ==
    /\ prog = "asc" /\ pc = "done" /\ pass = 1
    /\ usedIds0 = {"0", "1", "3"}
    /\ [k \in 1..Len(log) |-> log[k].name] = <<"2", "4", "5">>

\* The ids of compilation.usedModuleIds / usedChunkIds, as strings.
ConfiguredIdStrings ==
    { IdString(v) : v \in IF compUsedIds.defined THEN compUsedIds.ids ELSE {} }

\* C7: no id the ascending assigners newly assign equals, as a string, an id
\* of compilation.usedModuleIds / usedChunkIds or an id another module or
\* chunk of the compilation carried before the pass, and the newly assigned
\* ids are pairwise distinct.
C7_AscendingIdsFresh ==
    prog = "asc" =>
        \A k \in 1..Len(log) :
            /\ IdString(id[log[k].item]) \notin ConfiguredIdStrings
            /\ \A c \in compItems \ {log[k].item} :
                  id0[c] # NullId
                      => IdString(id0[c]) # IdString(id[log[k].item])
            /\ \A l \in 1..Len(log) :
                  l # k => id[log[l].item] # id[log[k].item]

\* Two ids were assigned while the compilation had configured used ids and a
\* module or chunk that carried an id.
C7_Witness ==
    /\ prog = "asc" /\ pc = "done" /\ pass = 1
    /\ Len(log) >= 2
    /\ compUsedIds.defined /\ compUsedIds.ids # {}
    /\ \E c \in compItems : id0[c] # NullId

\* C8: the ascending assigners never change the id (or ids list) of an item
\* that carries a non-null id and assign every item whose id is null; a
\* second application to the result of the first changes no id.
C8_AscendingKeepsAssigned ==
    prog = "asc" =>
        /\ \A x \in DOMAIN id :
              id0[x] # NullId => id[x] = id0[x] /\ chunkIds[x] = chunkIds0[x]
        /\ pc = "done" => \A x \in Range(items) : id[x] # NullId
        /\ pass = 2 => id = prevId /\ chunkIds = chunkIds0 /\ log = <<>>

\* The second application has completed over an item the first pass assigned
\* the id 0 and an item that carried an id before.
C8_Witness ==
    /\ prog = "asc" /\ pc = "done" /\ pass = 2
    /\ \E x \in Range(items) : id[x] = NumId(0)
    /\ \E y \in Range(items) : id[y] = StrId("2")

\* --------------------------------------------------- claims on re-running

RerunPass == prog \in {"names", "det"} /\ pass = 2 /\ mode = "rerun"

\* C9 as stated: re-running assignDeterministicIds or assignNames over items
\* that carry the ids/names of a previous pass, with the reserved set that
\* pass left, is a no-op: every item keeps its id/name and assignId/assignName
\* is not called for it.
C9_RerunIsNoOp == RerunPass => log = <<>> /\ id = prevId

\* The calls of assignName/assignId for item x in the current pass.
CallsFor(x) == { k \in 1..Len(log) : log[k].item = x }

\* C9 as amended: the re-run is not a no-op.  Neither function looks at what
\* an item carries: when the re-run has completed, assignId/assignName was
\* called exactly once more for every item the previous pass assigned, and
\* assignDeterministicIds has given every item an id different from the one
\* it carried.
C9_RerunAssignsAgain ==
    (RerunPass /\ pc = "done") =>
        /\ \A x \in DOMAIN id :
              prevId[x] # NullId => Cardinality(CallsFor(x)) = 1
        /\ prog = "det" => \A x \in DOMAIN id : id[x] # prevId[x]

\* A completed re-run over two or more items that all carried ids/names.
C9_Witness ==
    /\ RerunPass /\ pc = "done"
    /\ Len(items) >= 2
    /\ \A x \in DOMAIN id : prevId[x] # NullId

\* ---------------------------------------- the shared-short-name scenario

\* All items share one non-empty short name and nothing is reserved.
SharedShortName ==
    /\ NamesDone
    /\ usedIds0 = {}
    /\ \A x, y \in DOMAIN shortName :
          shortName[x] = shortName[y] /\ shortName[x] # ""

SameLongName(x) == { y \in DOMAIN longName : longName[y] = longName[x] }

\* The name the scenario expects for item x: its long name when no other item
\* has it, else the long name followed by the item's rank (from 0, in
\* comparator order) among the items that share it.
ExpectedName(x) ==
    IF SameLongName(x) = {x} THEN longName[x]
    ELSE longName[x]
           \o ToString(Cardinality({ y \in SameLongName(x) : y < x }))

\* C10 as stated: with an empty reserved set and all items sharing one
\* non-empty short name, every item gets the expected name.
C10_SharedShortNameAsStated ==
    SharedShortName => \A x \in DOMAIN id : id[x] = StrId(ExpectedName(x))

\* No long name is empty, and none is a long name followed by a number below
\* the number of items.
LongNamesSuffixFree ==
    \A x, y \in DOMAIN longName :
        /\ longName[x] # ""
        /\ \A k \in 0..(Len(items) - 1) :
              longName[x] # longName[y] \o ToString(k)

\* C10 as amended: with an empty reserved set, at least two items that all
\* share one non-empty short name, and long names that are non-empty and of
\* which none is a long name followed by a number below the number of items,
\* every item gets the expected name.
C10_SharedShortName ==
    (SharedShortName /\ Len(items) >= 2 /\ LongNamesSuffixFree)
        => \A x \in DOMAIN id : id[x] = StrId(ExpectedName(x))

\* Three items of one short name: one long name of its own, two sharing one.
C10_Witness ==
    /\ SharedShortName /\ LongNamesSuffixFree
    /\ Len(items) = 3
    /\ \E x \in DOMAIN id : SameLongName(x) = {x}
    /\ \E x \in DOMAIN id : Cardinality(SameLongName(x)) = 2

\* ------------------------------------------ claims on the helper functions

\* The concatenations of up to n of the segments "./" and "../".
RECURSIVE RelativeSegments(_)
RelativeSegments(n) ==
    IF n = 0 THEN { <<>> }
    ELSE LET R == RelativeSegments(n - 1)
         IN  R \cup { s \o g : s \in R, g \in { <<".", "/">>, <<".", ".", "/">> } }

RequestToIdReturned == prog = "requestToId" /\ pc = "returned"

\* C11 as stated: for every request the result of requestToId matches
\* ^[A-Za-z0-9_-]+$: it is not empty and every character is of the class.
C11_MatchesIdPatternAsStated ==
    RequestToIdReturned =>
        /\ Len(res.value) >= 1
        /\ \A k \in 1..Len(res.value) : res.value[k] \in IdChars

\* C11 as amended: every character of the result of requestToId is of the
\* class [A-Za-z0-9_-], and the result is empty exactly when the request is
\* empty or made of "./" and "../" segments only.
C11_MatchesIdPattern ==
    RequestToIdReturned =>
        /\ \A k \in 1..Len(res.value) : res.value[k] \in IdChars
        /\ res.value = <<>> <=> arg \in RelativeSegments(MaxRequestLen)

\* "./-?" gives "_": the segment is dropped, the leading "-" and the "?" are
\* one run.
C11_Witness ==
    /\ RequestToIdReturned
    /\ arg = <<".", "/", "-", "?">>
    /\ res.value = <<"_">>

\* The decimal digits of a digest, in order.
DecimalDigits(dg) == SelectSeq(dg, LAMBDA c : c < 10)

\* The number a sequence of decimal digits writes.
RECURSIVE DecimalValue(_)
DecimalValue(ds) ==
    IF ds = <<>> THEN 0
    ELSE 10 * DecimalValue(SubSeq(ds, 1, Len(ds) - 1)) + ds[Len(ds)]

\* C12: for every digest and every len >= 1, getHashNumber returns a number
\* from 0 to 10^len - 1: the number the first len decimal digits of the
\* digest write when it has that many, else the digits it has followed by a
\* 1 and then by zeros up to len digits.
C12_HashNumberInRange ==
    (prog = "getHashNumber" /\ pc = "returned") =>
        LET ds == DecimalDigits(arg.digest)
            n == arg.len
        IN  /\ 0 <= res.value /\ res.value < Pow10(n)
            /\ res.value = IF Len(ds) >= n
                           THEN DecimalValue(SubSeq(ds, 1, n))
                           ELSE (DecimalValue(ds) * 10 + 1)
                                    * Pow10(n - Len(ds) - 1)

\* The digest "a9f" with len 3: one decimal digit, the result is 910.
C12_Witness ==
    /\ prog = "getHashNumber" /\ pc = "returned"
    /\ arg = [digest |-> <<10, 9, 15>>, len |-> 3]
    /\ res.value = 910

\* C15: shortenLongString returns a string shorter than 100 characters as it
\* is, and for every string of 100 characters or more and every delimiter a
\* result of at most 100 characters: the first 94 - delimiter.length
\* characters of the string, the delimiter, and the hash of 6 characters of
\* the whole string.
C15_ShortenedWithinLimit ==
    (prog = "shortenLongString" /\ pc = "returned") =>
        LET s == arg.string
            d == arg.delimiter
        IN  IF Len(s) < ShortenLimit THEN res.value = s
            ELSE /\ Len(res.value) <= ShortenLimit
                 /\ res.value =
                        SubSeq(s, 1, ShortenLimit - ShortenHashLen - Len(d))
                            \o d \o getHash(s, ShortenHashLen)

\* C16: parseOptions throws whenever the library name is truthy and not a
\* string; otherwise it does not throw and returns an options object whose
\* name is the name it was given.
C16_ParseOptionsRejectsNonString ==
    (prog = "parseOptions" /\ pc = "returned") =>
        /\ res.thrown <=> (arg.name.truthy /\ arg.name.type # "string")
        /\ ~res.thrown => res.value.name = arg.name

\* parseOptions was given an array as the name and threw.
C16_Witness ==
    /\ prog = "parseOptions" /\ pc = "returned"
    /\ arg.name.v = "['a', 'b']"
    /\ res.thrown

\* ------------------------------- more claims on assignDeterministicIds

\* The least L with 10^L >= 1.25 n + 1.
LeastWidth(n) ==
    CHOOSE L \in 0..8 :
        /\ 4 * Pow10(L) >= 5 * n + 4
        /\ L = 0 \/ 4 * Pow10(L - 1) < 5 * n + 4

\* C13: every id assignDeterministicIds assigns has at most W decimal
\* digits, W the larger of the requested length (0 when none is given,
\* capped at 15) and the least L with 10^L >= 1.25 n + 1 for n items; with
\* no requested length the ids have at most L digits (L = 4 for 1000 items)
\* and are pairwise distinct.
C13_IdsWithinWidth ==
    (prog = "det" /\ pc # "start") =>
        LET L == LeastWidth(Len(items))
            W == Max(Min(IF maxLength.given THEN maxLength.n ELSE 0,
                         MaxSafeLength), L)
        IN  /\ usedMaxLength = W
            /\ \A k \in 1..Len(log) :
                  /\ id[log[k].item].tag = "number"
                  /\ 0 <= id[log[k].item].n
                  /\ id[log[k].item].n < Pow10(W)
            /\ ~maxLength.given =>
                  /\ W = L
                  /\ \A k, l \in 1..Len(log) :
                        k # l => id[log[k].item] # id[log[l].item]
            /\ LeastWidth(1000) = 4 /\ optimalLength(1000) = 4

\* A completed pass over two items with no requested length and ids
\* reserved before the pass.
C13_Witness ==
    /\ prog = "det" /\ pc = "done" /\ pass = 1
    /\ ~maxLength.given
    /\ Len(log) = 2
    /\ usedIds0 # {}

\* C14: for every input the probe loop ends for every item, so the pass
\* completes, also when the reserved set holds many or all of the ids of
\* the width.
C14_ProbeLoopTerminates == <>(prog = "det" /\ pc = "done")

\* The reserved set as it stood before the k-th call of the current pass.
ReservedBefore(k) == usedIds0 \cup { log[l].name : l \in 1..(k - 1) }

\* The id the i-th probe of item x gives.
ProbedId(x, n) ==
    getHashNumber(digest[ident[x] \o ToString(n)], usedMaxLength)

\* C18: assignDeterministicIds takes the items in comparator order and
\* gives each the id getHashNumber(name + i, width) of the smallest i >= 0
\* whose id, as a string, is not in the reserved set at that moment: the
\* ids reserved before the pass and the ids committed earlier in the pass.
C18_FirstFreeProbe ==
    prog = "det" =>
        \A k \in 1..Len(log) :
            /\ log[k].item = k
            /\ \E n \in 0..MaxProbe :
                  /\ \A m \in 0..n :
                        (ident[k] \o ToString(m)) \in DOMAIN digest
                  /\ \A m \in 0..(n - 1) :
                        ToString(ProbedId(k, m)) \in ReservedBefore(k)
                  /\ ToString(ProbedId(k, n)) \notin ReservedBefore(k)
                  /\ id[k] = NumId(ProbedId(k, n))

\* A completed pass over two items with ids reserved before it, in which
\* the second item in comparator order was given its third probe.
C18_Witness ==
    /\ prog = "det" /\ pc = "done" /\ pass = 1
    /\ Len(items) = 2
    /\ usedIds0 # {}
    /\ (ident[2] \o "2") \in DOMAIN digest
    /\ id[2] = NumId(ProbedId(2, 2))

\* ------------------------------------------- more claims on assignNames

\* The bucket of nameToItems2 that holds item x.
BucketOf(x) ==
    CHOOSE k \in 1..Len(nameToItems2) : x \in Range(nameToItems2[k].items)

\* Whether s is the name of a bucket of nameToItems2 other than bucket bk.
OtherBucketHas(bk, s) ==
    \E m \in 1..Len(nameToItems2) : m # bk /\ nameToItems2[m].name = s

NamesGrouped == prog = "names" /\ pc \in {"buckets", "done"}

\* C17: in the suffix branch the items of a bucket are taken in comparator
\* order and each is given name + i for the smallest i for which name + i
\* is neither the name of another bucket nor in the reserved set at that
\* moment; a suffix that fails either condition is skipped.
C17_SuffixSkipsTaken ==
    NamesGrouped =>
        \A k \in 1..Len(log) :
            LET bk == BucketOf(log[k].item)
                name == nameToItems2[bk].name
            IN  log[k].name # name =>
                  /\ \E t \in 0..(Cardinality(usedIds) + Len(nameToItems2)) :
                        /\ log[k].name = name \o ToString(t)
                        /\ log[k].name \notin ReservedBefore(k)
                        /\ ~OtherBucketHas(bk, log[k].name)
                        /\ \A u \in 0..(t - 1) :
                              \/ (name \o ToString(u)) \in ReservedBefore(k)
                              \/ OtherBucketHas(bk, name \o ToString(u))
                  /\ \A l \in 1..(k - 1) :
                        BucketOf(log[l].item) = bk
                            => comparator(log[l].item, log[k].item) < 0

SharesShortName(x) ==
    \E y \in DOMAIN shortName : y # x /\ shortName[y] = shortName[x]

\* The name an item is grouped under: its short name when that is not empty
\* and no other item has it, else its long name.
CandidateName(x) ==
    IF shortName[x] # "" /\ ~SharesShortName(x) THEN shortName[x]
    ELSE longName[x]

\* C19: an item is grouped under its short name only when that is not empty
\* and no other item has it, and under its long name otherwise; the item of
\* a bucket of one item whose name is not empty and not reserved at that
\* moment is assigned exactly that name, which is then in the reserved set;
\* when the pass has completed every item of a name that is not empty has
\* been assigned.
C19_GroupedByCandidateName ==
    NamesGrouped =>
        /\ \A x \in Range(items) :
              /\ \E k \in 1..Len(nameToItems2) :
                    x \in Range(nameToItems2[k].items)
              /\ \A k \in 1..Len(nameToItems2) :
                    x \in Range(nameToItems2[k].items)
                        <=> nameToItems2[k].name = CandidateName(x)
        /\ \A k \in 1..Len(log) :
              LET x == log[k].item
                  nm == CandidateName(x)
              IN  ( /\ { y \in Range(items) : CandidateName(y) = nm } = {x}
                    /\ nm \notin ReservedBefore(k) )
                      => /\ log[k].name = nm
                         /\ id[x] = StrId(nm)
                         /\ nm \in usedIds
        /\ pc = "done" =>
              \A x \in Range(items) :
                  CandidateName(x) # "" => CallsFor(x) # {}

\* A completed pass over three items: one keeps its short name, which no
\* other item has, and two share a short name.
C19_Witness ==
    /\ NamesDone /\ pass = 1
    /\ Len(items) = 3
    /\ \E x \in Range(items) :
          /\ ~SharesShortName(x) /\ shortName[x] # ""
          /\ id[x] = StrId(shortName[x])
    /\ \E y \in Range(items) : SharesShortName(y) /\ shortName[y] # ""

UnnamedSortedNeverNamed ==
    /\ \A k, l \in 1..Len(unnamedItems) :
          k < l => comparator(unnamedItems[k], unnamedItems[l]) < 0
    /\ \A x \in Range(unnamedItems) : CallsFor(x) = {}

\* C20 as stated: assignNames returns exactly the items whose short name and
\* long name are both empty, sorted by the comparator, and never calls
\* assignName for any of them.
C20_UnnamedAsStated ==
    NamesDone =>
        /\ Range(unnamedItems)
               = { x \in Range(items) : shortName[x] = "" /\ longName[x] = "" }
        /\ UnnamedSortedNeverNamed

\* C20 as amended: assignNames returns exactly the items whose candidate
\* name is empty, that is the items of an empty long name whose short name
\* is empty or shared with another item, sorted by the comparator, and
\* never calls assignName for any of them.
C20_UnnamedReturned ==
    NamesDone =>
        /\ Range(unnamedItems)
               = { x \in Range(items) :
                       /\ longName[x] = ""
                       /\ shortName[x] = "" \/ SharesShortName(x) }
        /\ UnnamedSortedNeverNamed

\* A first pass returned two or more items, one of them with a short name,
\* that the iterable did not yield in comparator order.
C20_Witness ==
    /\ NamesDone /\ pass = 1
    /\ Len(unnamedItems) >= 2
    /\ \E x \in Range(unnamedItems) : shortName[x] # ""
    /\ items # InComparatorOrder(Len(items))

\* ------------------------------------------------ claims on the frame

\* How many times item x occurs in the returned unnamedItems.
TimesUnnamed(x) ==
    Cardinality({ k \in 1..Len(unnamedItems) : unnamedItems[k] = x })

\* C21: in one assignNames pass every input item is handled exactly once:
\* assignName is called for it at most once and it occurs in unnamedItems at
\* most once at any moment, never both, and when the pass has returned
\* exactly one of the two has happened, so the named items and the returned
\* items together are as many as the input items.
C21_EveryItemHandledOnce ==
    prog = "names" =>
        /\ \A x \in Range(items) :
              /\ Cardinality(CallsFor(x)) + TimesUnnamed(x) <= 1
              /\ pc = "done" =>
                    Cardinality(CallsFor(x)) + TimesUnnamed(x) = 1
        /\ \A k \in 1..Len(log) : log[k].item \in Range(items)
        /\ Range(unnamedItems) \subseteq Range(items)
        /\ pc = "done" => Len(log) + Len(unnamedItems) = Len(items)

\* A completed first pass over three items: one is returned unnamed, one is
\* named directly and one is named by a suffix.
C21_Witness ==
    /\ NamesDone /\ pass = 1
    /\ Len(items) = 3
    /\ Len(unnamedItems) = 1
    /\ \E k, l \in 1..Len(log) :
          /\ log[k].name = CandidateName(log[k].item)
          /\ log[l].name # CandidateName(log[l].item)

\* C22: assignNames and assignDeterministicIds only add to usedIds: at every
\* moment of a pass, and so when it returns, the set is its contents before
\* the pass united with the string form of every name/id committed in the
\* pass, and nothing was removed from it.
C22_UsedIdsOnlyGrows ==
    prog \in {"names", "det"} =>
        /\ usedIds0 \subseteq usedIds
        /\ usedIds = usedIds0 \cup CommittedNames
        /\ \A k \in 1..Len(log) :
              log[k].name = IdString(id[log[k].item])
                  \/ \E l \in (k + 1)..Len(log) : log[l].item = log[k].item

\* A completed pass that started from a reserved set that was not empty and
\* committed two names or ids the set did not hold.
C22_Witness ==
    /\ prog \in {"names", "det"} /\ pc = "done"
    /\ usedIds0 # {}
    /\ Len(log) >= 2
    /\ Cardinality(usedIds) >= Cardinality(usedIds0) + 2

====
